---- MODULE Spec2Model ----
(***************************************************************************)
(* A model of canvas_assignments.py: the retrying GET (_get_with_retries), *)
(* the generator paginate, the course search built on it                   *)
(* (list_courses_generic, list_my_courses_for_term) and the per-course     *)
(* assignment loop of main.  The Canvas server is the environment: every   *)
(* response is chosen by it.                                               *)
(***************************************************************************)
EXTENDS Integers, Sequences, FiniteSets, TLC

\* ------------------------------------------------------------------ bounds
\* 429 responses the server sends within one fetch (the code has no cap).
Max429 == 2
\* Pages of one listing.
MaxPages == 2
\* Items of one page.
MaxItems == 2
\* Records of one listing, all pages together.
MaxListed == 3
\* The largest --max given on the command line.
MaxCount == 2

\* ------------------------------------------------------- program constants
MaxRetries == 4
TooManyRequests == 429
RetryStatuses == {500, 502, 503, 504}
DefaultRetryAfter == <<"3">>

None == "None"
ValueError == "ValueError"
\* A header: absent, or present with its text.
NoHeader == [present |-> FALSE, value |-> <<>>]
Header(v) == [present |-> TRUE, value |-> v]

\* ---------------------------------------------------------------- helpers
DigitVal ==
  [c \in {"0", "1", "2", "3", "4", "5", "6", "7", "8", "9"} |->
     CASE c = "0" -> 0 [] c = "1" -> 1 [] c = "2" -> 2 [] c = "3" -> 3
       [] c = "4" -> 4 [] c = "5" -> 5 [] c = "6" -> 6 [] c = "7" -> 7
       [] c = "8" -> 8 [] c = "9" -> 9]

\* int(s) accepts s: a non-empty run of decimal digits.
IsInt(s) == Len(s) > 0 /\ \A i \in 1..Len(s) : s[i] \in DOMAIN DigitVal

RECURSIVE IntOf(_)
IntOf(s) ==
  IF Len(s) = 0 THEN 0
  ELSE 10 * IntOf(SubSeq(s, 1, Len(s) - 1)) + DigitVal[s[Len(s)]]

RECURSIVE Pow2(_)
Pow2(n) == IF n = 0 THEN 1 ELSE 2 * Pow2(n - 1)

\* resp.headers.get("Retry-After", "3")
RetryAfterHeader(r) ==
  IF r.retryAfter.present THEN r.retryAfter.value ELSE DefaultRetryAfter

\* ------------------------------------------------------------------- URLs
\* f"{base_url}/api/v1/courses/{cid}", and page k of a listing: the path is
\* "courses", "self" (users/self/courses) or "assignments" (of course cid).
NoUrl == [path |-> None, cid |-> 0, page |-> 0]
NoParams == <<None>>
CourseUrl(cid) == [path |-> "course", cid |-> cid, page |-> 0]
ListUrl(path, cid, k) == [path |-> path, cid |-> cid, page |-> k]

CourseParams == <<"include[]=term">>
CourseListParams ==
  <<"enrollment_type[]=student", "enrollment_state[]=active",
    "enrollment_state[]=completed", "include[]=term", "per_page=100">>
AssignmentParams == <<"per_page=100">>

\* ------------------------------------------------------------- the server
\* Values of the Retry-After header of a 429: absent, seconds, or text that
\* is no number.
RetryAfterValues == {NoHeader, Header(<<"1", "0">>), Header(<<"s", "o", "o", "n">>)}
\* Transient and permanent failures the server answers with.
ServerErrors == {500, 503}
ClientErrors == {404}

\* A JSON body: a list of records or a single record.
ListBody(items) == [list |-> TRUE, items |-> items]
ObjectBody(x) == [list |-> FALSE, obj |-> x]
NoBody == ListBody(<<>>)

ErrorResponse(s) ==
  [status |-> s, retryAfter |-> NoHeader, body |-> NoBody, link |-> <<>>]

RateLimitResponses ==
  {[status |-> TooManyRequests, retryAfter |-> h, body |-> NoBody, link |-> <<>>] :
     h \in RetryAfterValues}

OkResponse(b, l) == [status |-> 200, retryAfter |-> NoHeader, body |-> b, link |-> l]


\* Term names of the courses the server holds (NoTerm: no term object).
NoTerm == <<>>
TermNames == {<<"S", "p", "5">>}
CourseTerms == TermNames \cup {NoTerm}
Course(id, term) == [id |-> id, term |-> term]
\* What GET /api/v1/courses/<cid> holds.
CourseRecords(cid) == {Course(cid, <<"S", "p", "5">>)}

\* The assignments the server holds.  due_at is null, an ISO-8601 time (a
\* local hour and its UTC offset) or text that is no time; published is
\* absent, true or false.
NullDue == [kind |-> "null", t |-> 0, off |-> 0]
TimeDue(t, off) == [kind |-> "time", t |-> t, off |-> off]
TextDue == [kind |-> "text", t |-> 0, off |-> 0]
Assignments ==
  { [name |-> "essay", due_at |-> TimeDue(5, 0), published |-> "absent"],
    [name |-> "", due_at |-> TimeDue(3, 0), published |-> "true"],
    [name |-> "draft", due_at |-> NullDue, published |-> "false"] }

\* Sequences over S of length at most n.
SeqsUpTo(S, n) == UNION {[1..k -> S] : k \in 0..n}

\* A Link header: the comma-separated segments, each with its rel and its
\* <url> (NoUrl: the segment has no angle-bracket URL).
LinkPart(rel, u) == [rel |-> rel, url |-> u]
LinksWithNext(prev, next) ==
  { <<LinkPart("next", next)>>,
    <<LinkPart("prev", prev), LinkPart("next", NoUrl), LinkPart("next", next)>> }
LinksWithoutNext(prev) ==
  { <<>>, <<LinkPart("prev", prev), LinkPart("next", NoUrl)>> }

VARIABLES
  fpc,        \* _get_with_retries: "idle", "get" (in the loop), "returned", "raised"
  getUrl,     \* _get_with_retries: url
  getParams,  \* _get_with_retries: params
  attempt,    \* _get_with_retries: attempt
  resp,       \* the response _get_with_retries returned (its caller's resp, r)
  log,        \* an observed fetch: each response received and the seconds slept after it
  observe,    \* whether the fetches are observed
  ppc,        \* paginate: "idle", "loop", "wait", "yield", "done", "raised", "closed"
  url,        \* paginate: url
  params,     \* paginate: params
  idx,        \* paginate: the next item of the page to yield
  perr,       \* the exception paginate raised
  numPages,   \* server: pages of the listing being paginated
  lastLink,   \* server: None, or "self" when the last page links to itself
  served,     \* the records of the listing received in 2xx pages
  yielded,    \* the records the consumer of paginate has taken
  source,     \* list_my_courses_for_term: source
  termSub,    \* list_my_courses_for_term: term_name_substring
  maxCourses, \* args.max, max_courses
  cpc,        \* list_my_courses_for_term: "idle", "try", "loop", "return", "returned", "raised"
  epIdx,      \* list_my_courses_for_term: the endpoint of the for loop
  matches,    \* list_courses_generic: matches
  result,     \* what list_my_courses_for_term returned
  cerr,       \* the exception list_my_courses_for_term raised
  tried,      \* the endpoints tried, each with what list_courses_generic gave
  mpc,        \* main: "idle", "ids", "course", "assign", "listing", "done", "exit1", "crashed"
  argCourses, \* args.courses
  courses,    \* main: courses
  ci,         \* main: the position of the for loops over the ids and over courses
  items,      \* list_assignments: items
  abc,        \* main: assignments_by_course
  fn,         \* a function applied on its own: its name, "idle" or "returned"
  arg,        \* its arguments
  ret         \* what it returned

fetchVars == <<fpc, getUrl, getParams, attempt, resp, log, observe>>
pageVars == <<ppc, url, params, idx, perr, numPages, lastLink, served, yielded>>
courseVars == <<source, termSub, maxCourses, cpc, epIdx, matches, result, cerr, tried>>
mainVars == <<mpc, argCourses, courses, ci, items, abc>>
pureVars == <<fn, arg, ret>>
vars == <<fetchVars, pageVars, courseVars, mainVars, pureVars>>

NoResp == ErrorResponse(0)
NoError == [kind |-> None, status |-> 0]
HTTPError(s) == [kind |-> "HTTPError", status |-> s]

\* Records the server lists on page k of a path; a course gets its position
\* in the listing as id.
ItemLists(path, k) ==
  IF path = "assignments" THEN SeqsUpTo(Assignments, MaxItems)
  ELSE { [i \in DOMAIN ts |-> Course((k - 1) * MaxItems + i, ts[i])] :
           ts \in SeqsUpTo(CourseTerms, MaxItems) }

Range(f) == {f[i] : i \in DOMAIN f}

\* The bodies of page u: a list, or a single record.  A listing holds at
\* most MaxListed records and no record twice; a page that links to itself
\* is empty.
PageBodies(u) ==
  IF lastLink = "self" /\ u.page = numPages THEN {ListBody(<<>>)}
  ELSE LET lists == { l \in ItemLists(u.path, u.page) :
                        /\ Len(served) + Len(l) <= MaxListed
                        /\ Cardinality(Range(l)) = Len(l)
                        /\ Range(l) \cap Range(served) = {} }
       IN  {ListBody(l) : l \in lists}
             \cup {ObjectBody(l[1]) : l \in {m \in lists : Len(m) = 1}}

PrevPage(u) == [u EXCEPT !.page = IF @ > 1 THEN @ - 1 ELSE @]
NextPage(u) == [u EXCEPT !.page = @ + 1]

PageLinks(u) ==
  IF u.page < numPages THEN LinksWithNext(PrevPage(u), NextPage(u))
  ELSE IF lastLink = "self" THEN LinksWithNext(PrevPage(u), u)
  ELSE LinksWithoutNext(PrevPage(u))

\* The 2xx answers to a GET of u.
OkResponses(u) ==
  IF u.path = "course"
    THEN {OkResponse(ObjectBody(c), <<>>) : c \in CourseRecords(u.cid)}
  ELSE IF u.page \notin 1..numPages THEN {}
  ELSE {OkResponse(b, l) : b \in PageBodies(u), l \in PageLinks(u)}

ServerResponses(u) ==
  RateLimitResponses
    \cup {ErrorResponse(s) : s \in ServerErrors \cup ClientErrors}
    \cup OkResponses(u)


\* ------------------------------------------------------ _get_with_retries
\* The log of an observed fetch: every response received, with the seconds
\* slept after it (NoSleep: the fetch ended on it).
NoSleep == 0 - 1
Logged(r, secs) ==
  IF observe
    THEN Append(log, [status |-> r.status, retryAfter |-> r.retryAfter, slept |-> secs])
    ELSE log

\* A budget check that is off by one.
Exhausted_OffByOne == attempt > MaxRetries

\* line 60: the retry budget is spent
Exhausted == attempt >= MaxRetries

\* line 61: the backoff before the next attempt
Backoff == Pow2(attempt)

\* line 57: int(resp.headers.get("Retry-After", "3"))
RetryAfterParses(r) == IsInt(RetryAfterHeader(r))

\* lines 56-58: a 429 sleeps Retry-After seconds and retries; int() raises
\* ValueError on a value that is no integer.  The server rate-limits only the
\* first MaxRetries + Max429 attempts of a fetch.  (Here and below, attempt
\* goes with the frame of the call when the call ends.)
GetRateLimited(r) ==
  /\ fpc = "get"
  /\ r.status = TooManyRequests
  /\ attempt < MaxRetries + Max429
  /\ IF RetryAfterParses(r)
       THEN /\ log' = Logged(r, IntOf(RetryAfterHeader(r)))
            /\ attempt' = attempt + 1
            /\ UNCHANGED <<fpc, resp>>
       ELSE /\ log' = Logged(r, NoSleep)
            /\ fpc' = "raised"
            /\ attempt' = 0
            /\ UNCHANGED resp
  /\ UNCHANGED <<getUrl, getParams, observe>>

\* lines 59-61: a 5xx is returned once the budget is spent, else slept on
\* and retried.
GetServerError(r) ==
  /\ fpc = "get"
  /\ r.status \in RetryStatuses
  /\ IF Exhausted
       THEN /\ log' = Logged(r, NoSleep)
            /\ fpc' = "returned"
            /\ resp' = r
            /\ attempt' = 0
       ELSE /\ log' = Logged(r, Backoff)
            /\ attempt' = attempt + 1
            /\ UNCHANGED <<fpc, resp>>
  /\ UNCHANGED <<getUrl, getParams, observe>>

\* line 62: any other status is returned at once.
GetOther(r) ==
  /\ fpc = "get"
  /\ r.status # TooManyRequests
  /\ r.status \notin RetryStatuses
  /\ fpc' = "returned"
  /\ resp' = r
  /\ attempt' = 0
  /\ log' = Logged(r, NoSleep)
  /\ UNCHANGED <<getUrl, getParams, observe>>

\* line 53: a call of _get_with_retries(session, u, p)
CallGet(u, p) ==
  /\ fpc' = "get"
  /\ getUrl' = u
  /\ getParams' = p
  /\ attempt' = 0
  /\ log' = <<>>
  /\ UNCHANGED <<resp, observe>>

\* The server answers the pending GET.
RateLimited == \E r \in ServerResponses(getUrl) : GetRateLimited(r)
ServerError == \E r \in ServerResponses(getUrl) : GetServerError(r)
Answered == \E r \in ServerResponses(getUrl) : GetOther(r)

\* ---------------------------------------------------------------- paginate
\* A check that lets client errors through.
Ok_Below500(r) == r.status < 500

\* Response.ok: the status is below 400.
Ok(r) == r.status < 400

\* A decoder that yields nothing for a body that is no list.
PageItems_ListsOnly(b) == IF b.list THEN b.items ELSE <<>>

\* lines 69-72: the items of a page in the order they are yielded
PageItems(b) == IF b.list THEN b.items ELSE <<b.obj>>

\* A parser that takes the first <url> whatever its rel.
NextLinkFromHeaders_AnyRel(link) ==
  LET hits == {i \in DOMAIN link : link[i].url # NoUrl}
  IN  IF hits = {} THEN NoUrl
      ELSE link[CHOOSE i \in hits : \A j \in hits : i <= j].url

\* A parser that takes the last rel="next" segment with a <url>.
NextLinkFromHeaders_Last(link) ==
  LET hits == {i \in DOMAIN link : link[i].rel = "next" /\ link[i].url # NoUrl}
  IN  IF hits = {} THEN NoUrl
      ELSE link[CHOOSE i \in hits : \A j \in hits : i >= j].url

\* lines 44-50: the <url> of the first segment with rel="next" that has one
NextLinkFromHeaders(link) ==
  LET hits == {i \in DOMAIN link : link[i].rel = "next" /\ link[i].url # NoUrl}
  IN  IF hits = {} THEN NoUrl
      ELSE link[CHOOSE i \in hits : \A j \in hits : i <= j].url

\* The records a 2xx page carries, in upstream order.
BodyRecords(b) == IF b.list THEN b.items ELSE <<b.obj>>

\* line 64: a call of paginate(session, u, p); the server holds a listing of
\* some number of pages under u.  Nothing is requested before the first
\* item is asked for.
CallPaginate(u, p) ==
  /\ ppc' = "loop"
  /\ url' = u
  /\ params' = p
  /\ idx' = 1
  /\ perr' = NoError
  /\ served' = <<>>
  /\ yielded' = <<>>
  /\ numPages' \in 1..MaxPages
  /\ lastLink' \in {None, "self"}

\* line 65: the loop ends when there is no next URL
PaginateExit ==
  /\ ppc = "loop"
  /\ url = NoUrl
  /\ ppc' = "done"
  /\ UNCHANGED <<url, params, idx, perr, numPages, lastLink, served, yielded>>
  /\ UNCHANGED fetchVars

\* lines 65-66: the next page is requested
PaginateGet ==
  /\ ppc = "loop"
  /\ url # NoUrl
  /\ ppc' = "wait"
  /\ CallGet(url, params)
  /\ UNCHANGED <<url, params, idx, perr, numPages, lastLink, served, yielded>>

\* lines 66-67: an exception of the fetch propagates, and a response that
\* is not ok raises HTTPError.
PaginateRaise ==
  /\ ppc = "wait"
  /\ \/ fpc = "raised" /\ perr' = [kind |-> ValueError, status |-> 0]
     \/ fpc = "returned" /\ ~Ok(resp) /\ perr' = HTTPError(resp.status)
  /\ ppc' = "raised"
  /\ fpc' = "idle"
  /\ UNCHANGED <<url, params, idx, numPages, lastLink, served, yielded>>
  /\ UNCHANGED <<getUrl, getParams, attempt, resp, log, observe>>

\* lines 68-69: the body of an ok response is decoded
PaginateData ==
  /\ ppc = "wait"
  /\ fpc = "returned"
  /\ Ok(resp)
  /\ ppc' = "yield"
  /\ idx' = 1
  /\ fpc' = "idle"
  /\ served' = served \o BodyRecords(resp.body)
  /\ UNCHANGED <<url, params, perr, numPages, lastLink, yielded>>
  /\ UNCHANGED <<getUrl, getParams, attempt, resp, log, observe>>

\* lines 70, 72: the generator is at a yield with an item to hand over
Yielding == ppc = "yield" /\ idx <= Len(PageItems(resp.body))
YieldedItem == PageItems(resp.body)[idx]

\* lines 70, 72: the consumer takes the item; the generator stays at the yield
TakeItem ==
  /\ Yielding
  /\ yielded' = Append(yielded, YieldedItem)
  /\ idx' = idx + 1
  /\ UNCHANGED <<url, params, perr, numPages, lastLink, served>>
  /\ UNCHANGED fetchVars

\* A paginate that goes on to the next page without waiting for its consumer.
PageConsumed_Early == TRUE

\* lines 70-72: every item of the page has been handed over
PageConsumed == idx > Len(PageItems(resp.body))

\* A paginate that keeps its parameters for the next page.
NextParams_Kept == params

\* line 74: params = None
NextParams == NoParams

\* lines 73-74: after the last item the next URL is read from the headers
\* (resp is not read again before line 66 assigns it anew).
PaginateAdvance ==
  /\ ppc = "yield"
  /\ PageConsumed
  /\ url' = NextLinkFromHeaders(resp.link)
  /\ params' = NextParams
  /\ ppc' = "loop"
  /\ resp' = NoResp
  /\ UNCHANGED <<idx, perr, numPages, lastLink, served, yielded>>
  /\ UNCHANGED <<fpc, getUrl, getParams, attempt, log, observe>>

\* for item in paginate(...): a consumer that keeps every item, as list() does
Consume == TakeItem /\ UNCHANGED ppc

\* ------------------------------------------------------------ term search
\* str.lower() on the letters that occur
ToLower(ch) ==
  CASE ch = "S" -> "s"
    [] ch = "P" -> "p"
    [] ch = "F" -> "f"
    [] ch = "A" -> "a"
    [] OTHER -> ch
Lower(s) == [i \in DOMAIN s |-> ToLower(s[i])]

\* sub in s, for strings
Contains(sub, s) ==
  \E k \in 0..(Len(s) - Len(sub)) : SubSeq(s, k + 1, k + Len(sub)) = sub

\* line 87: (c.get("term") or {}).get("name", "")
TermName(c) == c.term

\* line 88: term_sub.lower() in term.lower()
TermMatches(c) == Contains(Lower(termSub), Lower(TermName(c)))

\* A limit that lets one course more through.
LimitReached_Over(m) == Len(m) > maxCourses

\* line 90: len(matches) >= max_courses
LimitReached(m) == Len(m) >= maxCourses

\* line 94: the endpoints in the order of source
CoursesPath == "/api/v1/courses"
SelfCoursesPath == "/api/v1/users/self/courses"
Endpoints ==
  IF source = "courses" THEN <<CoursesPath, SelfCoursesPath>>
  ELSE <<SelfCoursesPath, CoursesPath>>

\* A handler that swallows every HTTP error.
Swallowed_AnyStatus(e) == e.kind = "HTTPError" /\ e.status >= 400

\* lines 99-100: the errors after which the next endpoint is tried
Swallowed(e) == e.kind = "HTTPError" /\ e.status >= 500

\* One endpoint tried: what list_courses_generic returned or raised.
Tried(path, res, err) == [path |-> path, res |-> res, err |-> err]

\* line 93: a call of list_my_courses_for_term (source, termSub and
\* maxCourses hold its arguments)
CallCourses ==
  /\ cpc' = "try"
  /\ epIdx' = 1
  /\ matches' = <<>>
  /\ result' = <<>>
  /\ cerr' = NoError
  /\ tried' = <<>>
  /\ UNCHANGED <<source, termSub, maxCourses>>

\* lines 95-97, 77-86: the next endpoint is searched
CoursesTry ==
  /\ cpc = "try"
  /\ epIdx <= Len(Endpoints)
  /\ cpc' = "loop"
  /\ matches' = <<>>
  /\ CallPaginate(ListUrl(Endpoints[epIdx], 0, 1), CourseListParams)
  /\ UNCHANGED <<source, termSub, maxCourses, epIdx, result, cerr, tried>>
  /\ UNCHANGED fetchVars

\* lines 86-90: one course is taken from paginate and filtered, and the
\* limit is checked; the break closes the generator.
CoursesItem ==
  /\ cpc = "loop"
  /\ TakeItem
  /\ matches' = IF TermMatches(YieldedItem) THEN Append(matches, YieldedItem)
                ELSE matches
  /\ IF LimitReached(matches')
       THEN cpc' = "return" /\ ppc' = "closed"
       ELSE UNCHANGED <<cpc, ppc>>
  /\ UNCHANGED <<source, termSub, maxCourses, epIdx, result, cerr, tried>>

\* line 86: paginate is exhausted
CoursesExhausted ==
  /\ cpc = "loop"
  /\ ppc = "done"
  /\ cpc' = "return"
  /\ UNCHANGED <<source, termSub, maxCourses, epIdx, matches, result, cerr, tried>>
  /\ UNCHANGED <<fetchVars, pageVars>>

\* lines 91, 97-98: list_courses_generic returns matches; a result that is
\* not empty is returned, else the loop goes on to the next endpoint.
CoursesReturn ==
  /\ cpc = "return"
  /\ tried' = Append(tried, Tried(Endpoints[epIdx], matches, NoError))
  /\ IF matches # <<>>
       THEN cpc' = "returned" /\ result' = matches /\ UNCHANGED epIdx
       ELSE cpc' = "try" /\ epIdx' = epIdx + 1 /\ UNCHANGED result
  /\ ppc' = "idle"
  /\ resp' = NoResp
  /\ UNCHANGED <<source, termSub, maxCourses, matches, cerr>>
  /\ UNCHANGED <<url, params, idx, perr, numPages, lastLink, served, yielded>>
  /\ UNCHANGED <<fpc, getUrl, getParams, attempt, log, observe>>

\* lines 99-100: an HTTPError with a status of 500 or more is swallowed and
\* the next endpoint tried; any other exception leaves the function.
CoursesError ==
  /\ cpc = "loop"
  /\ ppc = "raised"
  /\ tried' = Append(tried, Tried(Endpoints[epIdx], <<>>, perr))
  /\ IF Swallowed(perr)
       THEN cpc' = "try" /\ epIdx' = epIdx + 1 /\ UNCHANGED cerr
       ELSE cpc' = "raised" /\ cerr' = perr /\ UNCHANGED epIdx
  /\ ppc' = "idle"
  /\ resp' = NoResp
  /\ UNCHANGED <<source, termSub, maxCourses, matches, result>>
  /\ UNCHANGED <<url, params, idx, perr, numPages, lastLink, served, yielded>>
  /\ UNCHANGED <<fpc, getUrl, getParams, attempt, log, observe>>

\* line 101: no endpoint gave a course
CoursesNone ==
  /\ cpc = "try"
  /\ epIdx > Len(Endpoints)
  /\ cpc' = "returned"
  /\ result' = <<>>
  /\ UNCHANGED <<source, termSub, maxCourses, epIdx, matches, cerr, tried>>
  /\ UNCHANGED <<fetchVars, pageVars>>

\* ------------------------------------------------------- list_assignments
\* A filter that keeps only what is marked published.
Unpublished_Unmarked(a) == a.published # "true"

\* line 107: "published" in a and not a.get("published", False)
Unpublished(a) == a.published = "false"

\* lines 231-235: the fields main keeps of an assignment
Strip(n) == IF n = " essay " THEN "essay" ELSE n
Trim(a) ==
  [name |-> Strip(IF a.name = "" THEN "Untitled" ELSE a.name),
   due_at |-> a.due_at,
   published |-> IF a.published = "absent" THEN "true" ELSE a.published]
Trimmed(s) == [i \in DOMAIN s |-> Trim(s[i])]

\* lines 34-39: the UTC instant of a due_at, None when it has none
NoInstant == 0 - 1
ParseIso8601(d) == IF d.kind = "time" THEN d.t - d.off ELSE NoInstant

\* lines 112-114: the sort key; undated assignments share datetime.max
DateTimeMax == 9999
Key(a) ==
  IF ParseIso8601(a.due_at) = NoInstant THEN <<1, DateTimeMax>>
  ELSE <<0, ParseIso8601(a.due_at)>>

\* A comparison that puts an assignment before those of its own key.
KeyLess_OrEqual(x, y) == x[1] < y[1] \/ (x[1] = y[1] /\ x[2] <= y[2])

\* line 115: the order of the keys, tuples compared item by item
KeyLess(x, y) == x[1] < y[1] \/ (x[1] = y[1] /\ x[2] < y[2])

\* line 115: sorted(assignments, key=key), a stable sort
RECURSIVE InsertSorted(_, _)
InsertSorted(a, s) ==
  IF s = <<>> THEN <<a>>
  ELSE IF KeyLess(Key(a), Key(s[1])) THEN <<a>> \o s
  ELSE <<s[1]>> \o InsertSorted(a, Tail(s))
RECURSIVE SortedFrom(_, _)
SortedFrom(s, acc) ==
  IF s = <<>> THEN acc ELSE SortedFrom(Tail(s), InsertSorted(s[1], acc))
SortAssignments(s) == SortedFrom(s, <<>>)

\* -------------------------------------------------------------------- main
\* line 212: args.courses[: args.max]
Take(s, n) == SubSeq(s, 1, IF n < Len(s) THEN n ELSE Len(s))
\* The ids taken whatever --max says.
GivenIds_All == argCourses

GivenIds == Take(argCourses, maxCourses)

\* assignments_by_course[cid] = v
Put(d, cid, v) == [k \in DOMAIN d \cup {cid} |-> IF k = cid THEN v ELSE d[k]]
NoEntries == [k \in {} |-> <<>>]

\* lines 210-211: course ids were given
MainIds ==
  /\ mpc = "start"
  /\ argCourses # <<>>
  /\ mpc' = "ids"
  /\ courses' = <<>>
  /\ ci' = 1
  /\ UNCHANGED <<argCourses, items, abc>>
  /\ UNCHANGED <<fetchVars, pageVars, courseVars>>

\* lines 212-213: the next course is requested
MainCourseGet ==
  /\ mpc = "ids"
  /\ ci <= Len(GivenIds)
  /\ mpc' = "course"
  /\ CallGet(CourseUrl(GivenIds[ci]), CourseParams)
  /\ UNCHANGED <<argCourses, courses, ci, items, abc>>
  /\ UNCHANGED <<pageVars, courseVars>>

\* lines 214-216: a failing response is reported and skipped, else the
\* course is kept
MainCourseGot ==
  /\ mpc = "course"
  /\ fpc = "returned"
  /\ courses' = IF Ok(resp) THEN Append(courses, resp.body.obj) ELSE courses
  /\ ci' = ci + 1
  /\ mpc' = "ids"
  /\ fpc' = "idle"
  /\ resp' = NoResp
  /\ UNCHANGED <<getUrl, getParams, attempt, log, observe>>
  /\ UNCHANGED <<argCourses, items, abc>>
  /\ UNCHANGED <<pageVars, courseVars>>

\* line 213: an exception of the fetch is not caught
MainCourseCrash ==
  /\ mpc = "course"
  /\ fpc = "raised"
  /\ mpc' = "crashed"
  /\ fpc' = "idle"
  /\ UNCHANGED <<getUrl, getParams, attempt, resp, log, observe>>
  /\ UNCHANGED <<argCourses, courses, ci, items, abc>>
  /\ UNCHANGED <<pageVars, courseVars>>

\* lines 217-218, 224: after the last id: exit 1 without a course
MainIdsDone ==
  /\ mpc = "ids"
  /\ ci > Len(GivenIds)
  /\ IF courses = <<>>
       THEN mpc' = "exit1" /\ UNCHANGED <<ci, abc>>
       ELSE mpc' = "assign" /\ ci' = 1 /\ abc' = NoEntries
  /\ UNCHANGED <<argCourses, courses, items>>
  /\ UNCHANGED <<fetchVars, pageVars, courseVars>>

\* lines 219-220: no ids were given, the term is searched
MainTerm ==
  /\ mpc = "start"
  /\ argCourses = <<>>
  /\ mpc' = "term"
  /\ CallCourses
  /\ UNCHANGED <<argCourses, courses, ci, items, abc>>
  /\ UNCHANGED <<fetchVars, pageVars>>

\* lines 220-222, 224: the search returned: exit 1 without a course
MainTermDone ==
  /\ mpc = "term"
  /\ cpc = "returned"
  /\ courses' = result
  /\ cpc' = "idle"
  /\ matches' = <<>>
  /\ result' = <<>>
  /\ tried' = <<>>
  /\ IF result = <<>>
       THEN mpc' = "exit1" /\ UNCHANGED <<ci, abc>>
       ELSE mpc' = "assign" /\ ci' = 1 /\ abc' = NoEntries
  /\ UNCHANGED <<source, termSub, maxCourses, epIdx, cerr>>
  /\ UNCHANGED <<argCourses, items>>
  /\ UNCHANGED <<fetchVars, pageVars>>

\* line 220: an exception of the search is not caught
MainTermCrash ==
  /\ mpc = "term"
  /\ cpc = "raised"
  /\ mpc' = "crashed"
  /\ cpc' = "idle"
  /\ UNCHANGED <<source, termSub, maxCourses, epIdx, matches, result, cerr, tried>>
  /\ UNCHANGED <<argCourses, courses, ci, items, abc>>
  /\ UNCHANGED <<fetchVars, pageVars>>

\* lines 225-228, 104-106: the assignments of the next course are listed
MainAssignCall ==
  /\ mpc = "assign"
  /\ ci <= Len(courses)
  /\ mpc' = "listing"
  /\ items' = <<>>
  /\ CallPaginate(ListUrl("assignments", courses[ci].id, 1), AssignmentParams)
  /\ UNCHANGED <<argCourses, courses, ci, abc>>
  /\ UNCHANGED <<fetchVars, courseVars>>

\* lines 106-108: an assignment is taken from paginate; an unpublished one
\* is dropped
AssignItem ==
  /\ mpc = "listing"
  /\ TakeItem
  /\ items' = IF Unpublished(YieldedItem) THEN items ELSE Append(items, YieldedItem)
  /\ UNCHANGED ppc
  /\ UNCHANGED <<mpc, argCourses, courses, ci, abc>>
  /\ UNCHANGED courseVars

\* lines 109, 231-236: the listing is complete; trimmed and sorted
MainAssignDone ==
  /\ mpc = "listing"
  /\ ppc = "done"
  /\ abc' = Put(abc, courses[ci].id, SortAssignments(Trimmed(items)))
  /\ ci' = ci + 1
  /\ mpc' = "assign"
  /\ items' = <<>>
  /\ ppc' = "idle"
  /\ served' = <<>>
  /\ yielded' = <<>>
  /\ UNCHANGED <<url, params, idx, perr, numPages, lastLink>>
  /\ UNCHANGED <<argCourses, courses>>
  /\ UNCHANGED <<fetchVars, courseVars>>

\* A handler that keeps what was gathered before the failure.
FailedItems_Kept == items

\* line 230: items = []
FailedItems == <<>>

\* lines 229-236: an HTTPError of the listing is reported and the course
\* gets the empty list
MainAssignFailed ==
  /\ mpc = "listing"
  /\ ppc = "raised"
  /\ perr.kind = "HTTPError"
  /\ abc' = Put(abc, courses[ci].id, SortAssignments(Trimmed(FailedItems)))
  /\ ci' = ci + 1
  /\ mpc' = "assign"
  /\ items' = <<>>
  /\ ppc' = "idle"
  /\ served' = <<>>
  /\ yielded' = <<>>
  /\ UNCHANGED <<url, params, idx, perr, numPages, lastLink>>
  /\ UNCHANGED <<argCourses, courses>>
  /\ UNCHANGED <<fetchVars, courseVars>>

\* line 229: any other exception of the listing is not caught
MainAssignCrash ==
  /\ mpc = "listing"
  /\ ppc = "raised"
  /\ perr.kind # "HTTPError"
  /\ mpc' = "crashed"
  /\ UNCHANGED pageVars
  /\ UNCHANGED <<argCourses, courses, ci, items, abc>>
  /\ UNCHANGED <<fetchVars, courseVars>>

\* lines 238-246: after the last course the output is built and written
MainRender ==
  /\ mpc = "assign"
  /\ ci > Len(courses)
  /\ mpc' = "done"
  /\ UNCHANGED <<argCourses, courses, ci, items, abc>>
  /\ UNCHANGED <<fetchVars, pageVars, courseVars>>

\* --------------------------------------------------------- specifications
upperVars == <<courseVars, mainVars, pureVars>>

IdleFetch ==
  /\ fpc = "idle"
  /\ getUrl = NoUrl
  /\ getParams = NoParams
  /\ attempt = 0
  /\ resp = NoResp
  /\ log = <<>>

IdlePaginate ==
  /\ ppc = "idle"
  /\ url = NoUrl
  /\ params = NoParams
  /\ idx = 1
  /\ perr = NoError
  /\ numPages = 1
  /\ lastLink = None
  /\ served = <<>>
  /\ yielded = <<>>

IdleCourses ==
  /\ source = "courses"
  /\ termSub = <<>>
  /\ maxCourses = 1
  /\ cpc = "idle"
  /\ epIdx = 1
  /\ matches = <<>>
  /\ result = <<>>
  /\ cerr = NoError
  /\ tried = <<>>

IdleMain ==
  /\ mpc = "idle"
  /\ argCourses = <<>>
  /\ courses = <<>>
  /\ ci = 1
  /\ items = <<>>
  /\ abc = NoEntries

IdlePure ==
  /\ fn = "idle"
  /\ arg = <<>>
  /\ ret = <<>>

\* One fetch of a course, as main issues it (line 213), its retries logged.
InitFetch ==
  /\ fpc = "get"
  /\ getUrl = CourseUrl(1)
  /\ getParams = CourseParams
  /\ attempt = 0
  /\ resp = NoResp
  /\ log = <<>>
  /\ observe = TRUE
  /\ IdlePaginate
  /\ IdleCourses
  /\ IdleMain
  /\ IdlePure

NextFetch ==
  \/ RateLimited /\ UNCHANGED <<pageVars, upperVars>>
  \/ ServerError /\ UNCHANGED <<pageVars, upperVars>>
  \/ Answered /\ UNCHANGED <<pageVars, upperVars>>

SpecFetch == InitFetch /\ [][NextFetch]_vars

\* One paginate call over an assignment listing, consumed to its end.
InitPaginate ==
  /\ IdleFetch
  /\ observe = FALSE
  /\ ppc = "loop"
  /\ url = ListUrl("assignments", 1, 1)
  /\ params = AssignmentParams
  /\ idx = 1
  /\ perr = NoError
  /\ numPages \in 1..MaxPages
  /\ lastLink \in {None, "self"}
  /\ served = <<>>
  /\ yielded = <<>>
  /\ IdleCourses
  /\ IdleMain
  /\ IdlePure

NextPaginate ==
  \/ RateLimited /\ UNCHANGED <<pageVars, upperVars>>
  \/ ServerError /\ UNCHANGED <<pageVars, upperVars>>
  \/ Answered /\ UNCHANGED <<pageVars, upperVars>>
  \/ PaginateExit /\ UNCHANGED upperVars
  \/ PaginateGet /\ UNCHANGED upperVars
  \/ PaginateRaise /\ UNCHANGED upperVars
  \/ PaginateData /\ UNCHANGED upperVars
  \/ PaginateAdvance /\ UNCHANGED upperVars
  \/ Consume /\ UNCHANGED upperVars

SpecPaginate == InitPaginate /\ [][NextPaginate]_vars

\* The program is one thread that runs whenever it can, and the server
\* answers every request.
FairPaginate == SpecPaginate /\ WF_vars(NextPaginate)

\* One fetch with its retries logged, or one paginate call.
InitRequests == InitFetch \/ InitPaginate
SpecRequests == InitRequests /\ [][NextPaginate]_vars

\* One call of list_my_courses_for_term, as main issues it (line 220).
Sources == {"courses", "self"}
TermSubs == {<<>>, <<"s", "P">>}
InitCourses ==
  /\ IdleFetch
  /\ observe = FALSE
  /\ IdlePaginate
  /\ source \in Sources
  /\ termSub \in TermSubs
  /\ maxCourses \in 0..MaxCount
  /\ cpc = "try"
  /\ epIdx = 1
  /\ matches = <<>>
  /\ result = <<>>
  /\ cerr = NoError
  /\ tried = <<>>
  /\ IdleMain
  /\ IdlePure

NextCourses ==
  \/ RateLimited /\ UNCHANGED <<pageVars, upperVars>>
  \/ ServerError /\ UNCHANGED <<pageVars, upperVars>>
  \/ Answered /\ UNCHANGED <<pageVars, upperVars>>
  \/ PaginateExit /\ UNCHANGED upperVars
  \/ PaginateGet /\ UNCHANGED upperVars
  \/ PaginateRaise /\ UNCHANGED upperVars
  \/ PaginateData /\ UNCHANGED upperVars
  \/ PaginateAdvance /\ UNCHANGED upperVars
  \/ CoursesTry /\ UNCHANGED <<mainVars, pureVars>>
  \/ CoursesItem /\ UNCHANGED <<mainVars, pureVars>>
  \/ CoursesExhausted /\ UNCHANGED <<mainVars, pureVars>>
  \/ CoursesReturn /\ UNCHANGED <<mainVars, pureVars>>
  \/ CoursesError /\ UNCHANGED <<mainVars, pureVars>>
  \/ CoursesNone /\ UNCHANGED <<mainVars, pureVars>>

SpecCourses == InitCourses /\ [][NextCourses]_vars

\* One run of main, with course ids or with a term.
ArgCourses == {<<1>>, <<1, 2>>, <<2, 2>>}
InitMain ==
  /\ IdleFetch
  /\ observe = FALSE
  /\ IdlePaginate
  /\ \/ argCourses \in ArgCourses /\ source = "courses" /\ termSub = <<>>
     \/ argCourses = <<>> /\ source = "self" /\ termSub = <<"s", "P">>
  /\ maxCourses \in 1..MaxCount
  /\ cpc = "idle"
  /\ epIdx = 1
  /\ matches = <<>>
  /\ result = <<>>
  /\ cerr = NoError
  /\ tried = <<>>
  /\ mpc = "start"
  /\ courses = <<>>
  /\ ci = 1
  /\ items = <<>>
  /\ abc = NoEntries
  /\ IdlePure

NextMain ==
  \/ RateLimited /\ UNCHANGED <<pageVars, upperVars>>
  \/ ServerError /\ UNCHANGED <<pageVars, upperVars>>
  \/ Answered /\ UNCHANGED <<pageVars, upperVars>>
  \/ PaginateExit /\ UNCHANGED upperVars
  \/ PaginateGet /\ UNCHANGED upperVars
  \/ PaginateRaise /\ UNCHANGED upperVars
  \/ PaginateData /\ UNCHANGED upperVars
  \/ PaginateAdvance /\ UNCHANGED upperVars
  \/ CoursesTry /\ UNCHANGED <<mainVars, pureVars>>
  \/ CoursesItem /\ UNCHANGED <<mainVars, pureVars>>
  \/ CoursesExhausted /\ UNCHANGED <<mainVars, pureVars>>
  \/ CoursesReturn /\ UNCHANGED <<mainVars, pureVars>>
  \/ CoursesError /\ UNCHANGED <<mainVars, pureVars>>
  \/ CoursesNone /\ UNCHANGED <<mainVars, pureVars>>
  \/ MainIds /\ UNCHANGED pureVars
  \/ MainCourseGet /\ UNCHANGED pureVars
  \/ MainCourseGot /\ UNCHANGED pureVars
  \/ MainCourseCrash /\ UNCHANGED pureVars
  \/ MainIdsDone /\ UNCHANGED pureVars
  \/ MainTerm /\ UNCHANGED pureVars
  \/ MainTermDone /\ UNCHANGED pureVars
  \/ MainTermCrash /\ UNCHANGED pureVars
  \/ MainAssignCall /\ UNCHANGED pureVars
  \/ AssignItem /\ UNCHANGED pureVars
  \/ MainAssignDone /\ UNCHANGED pureVars
  \/ MainAssignFailed /\ UNCHANGED pureVars
  \/ MainAssignCrash /\ UNCHANGED pureVars
  \/ MainRender /\ UNCHANGED pureVars

SpecMain == InitMain /\ [][NextMain]_vars

\* The resolution of the courses in main (lines 210-222): a run of main up
\* to the loop over the courses.
NextResolve ==
  \/ RateLimited /\ UNCHANGED <<pageVars, upperVars>>
  \/ ServerError /\ UNCHANGED <<pageVars, upperVars>>
  \/ Answered /\ UNCHANGED <<pageVars, upperVars>>
  \/ PaginateExit /\ UNCHANGED upperVars
  \/ PaginateGet /\ UNCHANGED upperVars
  \/ PaginateRaise /\ UNCHANGED upperVars
  \/ PaginateData /\ UNCHANGED upperVars
  \/ PaginateAdvance /\ UNCHANGED upperVars
  \/ CoursesTry /\ UNCHANGED <<mainVars, pureVars>>
  \/ CoursesItem /\ UNCHANGED <<mainVars, pureVars>>
  \/ CoursesExhausted /\ UNCHANGED <<mainVars, pureVars>>
  \/ CoursesReturn /\ UNCHANGED <<mainVars, pureVars>>
  \/ CoursesError /\ UNCHANGED <<mainVars, pureVars>>
  \/ CoursesNone /\ UNCHANGED <<mainVars, pureVars>>
  \/ MainIds /\ UNCHANGED pureVars
  \/ MainCourseGet /\ UNCHANGED pureVars
  \/ MainCourseGot /\ UNCHANGED pureVars
  \/ MainCourseCrash /\ UNCHANGED pureVars
  \/ MainIdsDone /\ UNCHANGED pureVars
  \/ MainTerm /\ UNCHANGED pureVars
  \/ MainTermDone /\ UNCHANGED pureVars
  \/ MainTermCrash /\ UNCHANGED pureVars

SpecResolve == InitMain /\ [][NextResolve]_vars

\* The loop of main over the courses (lines 224-236), entered with the
\* courses that ids on the command line resolved to.
ResolvedCourses ==
  {<<c>> : c \in CourseRecords(1)}
    \cup {<<c, d>> : c \in CourseRecords(1), d \in CourseRecords(2)}
InitAssign ==
  /\ courses \in ResolvedCourses
  /\ fpc = "idle"
  /\ getUrl = CourseUrl(Len(courses))
  /\ getParams = CourseParams
  /\ attempt = 0
  /\ resp = NoResp
  /\ log = <<>>
  /\ observe = FALSE
  /\ IdlePaginate
  /\ source = "courses"
  /\ termSub = <<>>
  /\ maxCourses = MaxCount
  /\ cpc = "idle"
  /\ epIdx = 1
  /\ matches = <<>>
  /\ result = <<>>
  /\ cerr = NoError
  /\ tried = <<>>
  /\ mpc = "assign"
  /\ argCourses = [i \in DOMAIN courses |-> courses[i].id]
  /\ ci = 1
  /\ items = <<>>
  /\ abc = NoEntries
  /\ IdlePure

NextAssign ==
  \/ RateLimited /\ UNCHANGED <<pageVars, upperVars>>
  \/ ServerError /\ UNCHANGED <<pageVars, upperVars>>
  \/ Answered /\ UNCHANGED <<pageVars, upperVars>>
  \/ PaginateExit /\ UNCHANGED upperVars
  \/ PaginateGet /\ UNCHANGED upperVars
  \/ PaginateRaise /\ UNCHANGED upperVars
  \/ PaginateData /\ UNCHANGED upperVars
  \/ PaginateAdvance /\ UNCHANGED upperVars
  \/ MainAssignCall /\ UNCHANGED pureVars
  \/ AssignItem /\ UNCHANGED pureVars
  \/ MainAssignDone /\ UNCHANGED pureVars
  \/ MainAssignFailed /\ UNCHANGED pureVars
  \/ MainAssignCrash /\ UNCHANGED pureVars
  \/ MainRender /\ UNCHANGED pureVars

SpecAssign == InitAssign /\ [][NextAssign]_vars

\* ------------------------------------------------- claims: one fetch
Is5xx(e) == e.status \in RetryStatuses
Is429(e) == e.status = TooManyRequests
ServerErrorsBefore(i) == Cardinality({j \in 1..(i - 1) : Is5xx(log[j])})
Sleeps == [i \in DOMAIN log |-> log[i].slept]
Finished == fpc \in {"returned", "raised"}

\* C1: a 5xx is retried with a backoff of 2^k seconds, k the number of 5xx
\* retries already made in this fetch, and a 5xx is returned only when it is
\* the fifth 5xx of the fetch; 429 responses in between change neither.
C1_BackoffCounts5xxOnly ==
  /\ \A i \in DOMAIN log :
       (Is5xx(log[i]) /\ log[i].slept # NoSleep)
         => log[i].slept = Pow2(ServerErrorsBefore(i))
  /\ (fpc = "returned" /\ resp.status \in RetryStatuses)
       => ServerErrorsBefore(Len(log)) = MaxRetries

\* C2: a fetch answered by 5xx responses only makes at most 5 requests; on
\* the fifth it has slept 1, 2, 4 and 8 seconds and returns that response.
C2_FiveServerErrorsReturned ==
  (\A i \in DOMAIN log : Is5xx(log[i]))
    => /\ Len(log) <= MaxRetries + 1
       /\ Len(log) <= MaxRetries => fpc = "get"
       /\ Len(log) = MaxRetries + 1
            => /\ fpc = "returned"
               /\ resp.status = log[Len(log)].status
               /\ Sleeps = <<1, 2, 4, 8, NoSleep>>

C2_Witness ==
  /\ Len(log) = 5
  /\ \A i \in DOMAIN log : Is5xx(log[i])
  /\ log[1].status # log[5].status
  /\ fpc = "returned"

\* The seconds a 429 asks for: its Retry-After, 3 when that is absent or no
\* number.
AskedDelay(h) == IF h.present /\ IsInt(h.value) THEN IntOf(h.value) ELSE 3

\* C3: a 429 is never returned and has no cap: while only 429s have been
\* answered the fetch is still trying and has slept the Retry-After of each,
\* and n 429s followed by a 200 return the 200 after n + 1 requests.
C3_RateLimitAlwaysRetried ==
  /\ fpc = "returned" => resp.status # TooManyRequests
  /\ (\A i \in DOMAIN log : Is429(log[i]))
       => /\ fpc = "get"
          /\ \A i \in DOMAIN log : log[i].slept = AskedDelay(log[i].retryAfter)
  /\ (/\ Len(log) > 0
      /\ log[Len(log)].status = 200
      /\ \A i \in 1..(Len(log) - 1) : Is429(log[i]))
       => /\ fpc = "returned"
          /\ resp.status = 200
          /\ \A i \in 1..(Len(log) - 1) : log[i].slept = AskedDelay(log[i].retryAfter)

\* C4: a 429 whose Retry-After is absent or is no number of seconds is slept
\* on for 3 seconds and retried; the fetch raises no error.
C4_DefaultDelayOnBadHeader ==
  /\ fpc # "raised"
  /\ \A i \in DOMAIN log :
       (Is429(log[i]) /\ ~(log[i].retryAfter.present /\ IsInt(log[i].retryAfter.value)))
         => log[i].slept = 3

\* --------------------------------------------------- claims: paginate
IsPrefix(a, b) == Len(a) <= Len(b) /\ a = SubSeq(b, 1, Len(a))
Terminated == ppc \in {"done", "raised"}

\* C5: what paginate has yielded is at every moment a prefix of the items
\* of the pages sent so far, in page order and in-page order (a single
\* object counts as one item); when it ends it has requested all the pages
\* of the listing and yielded every item exactly once.
C5_YieldsConcatenation ==
  /\ IsPrefix(yielded, served)
  /\ ppc = "done" => (yielded = served /\ getUrl.page = numPages)
  /\ ppc = "loop" => yielded = served

C5_Witness ==
  /\ ppc = "done"
  /\ numPages = MaxPages
  /\ Len(yielded) > MaxItems

\* C6: a response that is not 2xx, once returned to paginate, makes it
\* raise the HTTP error; nothing more is yielded and the sequence does not
\* end normally.
C6_FailureRaises ==
  [][(ppc = "wait" /\ fpc = "returned" /\ resp.status \notin 200..299)
       => (ppc' = "raised" /\ perr' = HTTPError(resp.status) /\ yielded' = yielded)]_vars

C6_Witness ==
  /\ ppc = "raised"
  /\ perr = HTTPError(503)
  /\ getUrl.page > 1
  /\ Len(yielded) > 0

\* C7: every paginate call consumed to its end terminates.
C7_AlwaysTerminates == <>Terminated

\* C7 as amended: it terminates when the chain of next links ends.
C7_TerminatesOnFiniteChain == (lastLink = None) => <>Terminated

C7_Witness ==
  /\ lastLink = None
  /\ numPages = MaxPages
  /\ ppc = "done"

\* ------------------------------------------------ claims: the term search
\* The search of an endpoint was left by the break of line 90.
Stopped == cpc = "return" /\ ppc = "closed"
Filtered(s) == SelectSeq(s, TermMatches)

\* C8: the limit is checked only once the page is filtered: when the search
\* stops on the limit, every record of the page it stopped on has been
\* taken and filtered.
C8_WholePageFiltered == Stopped => idx > Len(PageItems(resp.body))

\* C8 as amended: the limit is checked after each record: the search goes on
\* only while the matches are fewer than the limit, and it stops with the
\* first record at which they are not, whatever is left of the page; the
\* matches are the matching ones of the records taken.
C8_StopsAtRecord ==
  /\ cpc \in {"loop", "return"} => matches = Filtered(yielded)
  /\ (cpc = "loop" /\ yielded # <<>>) => Len(matches) < maxCourses
  /\ Stopped
       => /\ yielded # <<>>
          /\ Len(matches) >= maxCourses
          /\ Len(yielded) > 1
               => Len(Filtered(SubSeq(yielded, 1, Len(yielded) - 1))) < maxCourses

C8_Witness ==
  /\ Stopped
  /\ maxCourses = 1
  /\ idx <= Len(PageItems(resp.body))
  /\ Len(yielded) > 1

\* What an endpoint gave made the search go on: an empty result or an
\* HTTPError with a 5xx status.
ServerFailure(e) == e.kind = "HTTPError" /\ e.status \in 500..599
GaveNothing(t) == (t.err = NoError /\ t.res = <<>>) \/ ServerFailure(t.err)
Ended == cpc \in {"returned", "raised"}
FirstPath == IF source = "courses" THEN CoursesPath ELSE SelfCoursesPath
SecondPath == IF source = "courses" THEN SelfCoursesPath ELSE CoursesPath

\* C9: the endpoint of source is queried first and the other second; the
\* second is queried exactly when the first gave an empty result or failed
\* with a 5xx HTTPError; any other error leaves the function at once, and
\* a result of the first that is not empty is returned with no request to
\* the second.
C9_FallbackOrder ==
  /\ Len(tried) <= 2
  /\ Len(tried) >= 1 => tried[1].path = FirstPath
  /\ Len(tried) = 2 => tried[2].path = SecondPath
  /\ fpc = "get" => /\ Len(tried) < 2
                    /\ ~Ended
                    /\ getUrl.path = IF Len(tried) = 0 THEN FirstPath ELSE SecondPath
  /\ Len(tried) = 2 => GaveNothing(tried[1])
  /\ ~Ended => \A i \in DOMAIN tried : GaveNothing(tried[i])
  /\ (Ended /\ Len(tried) = 1) => ~GaveNothing(tried[1])
  /\ Ended => Len(tried) >= 1
  /\ cpc = "raised"
       => /\ cerr = tried[Len(tried)].err
          /\ cerr # NoError
          /\ ~ServerFailure(cerr)
  /\ cpc = "returned"
       => /\ tried[Len(tried)].err = NoError \/ Len(tried) = 2
          /\ result = IF tried[Len(tried)].err = NoError THEN tried[Len(tried)].res
                      ELSE <<>>
          /\ result = <<>> => (Len(tried) = 2 /\ GaveNothing(tried[2]))

C9_Witness ==
  /\ cpc = "returned"
  /\ source = "self"
  /\ Len(tried) = 2
  /\ ServerFailure(tried[1].err)
  /\ result # <<>>

\* --------------------------------------------------------- claims: main
\* The run was stopped by an exception in the loop over the courses.
StoppedInLoop == mpc = "crashed" /\ url.path = "assignments"
Published(s) == SelectSeq(s, LAMBDA a : ~Unpublished(a))
CompleteList(recs) == SortAssignments(Trimmed(Published(recs)))

\* C10: a failure of the assignment fetch of one course does not stop the
\* run: the course gets the empty list and the entries of the other
\* courses stay as they are; a course whose fetch succeeds gets its
\* complete sorted list, and after the loop every course has an entry.
C10_FailureIsolated ==
  /\ [](~StoppedInLoop)
  /\ [](mpc = "done" => DOMAIN abc = {courses[i].id : i \in DOMAIN courses})
  /\ [][(mpc = "listing" /\ mpc' = "assign")
          => /\ abc'[courses[ci].id] =
                  IF ppc = "raised" THEN <<>> ELSE CompleteList(served)
             /\ \A k \in DOMAIN abc \ {courses[ci].id} : abc'[k] = abc[k]]_vars

\* ------------------------------------------- claims: resolving the courses
\* The number of ids main asks for.
Asked == IF maxCourses < Len(argCourses) THEN maxCourses ELSE Len(argCourses)

\* C11: with explicit ids the first max ids are fetched in the order given,
\* each in turn whatever the answers before it; a failing response skips
\* its course and any other adds it.  When no course is resolved (every id
\* failed, or the term search gave none) the run exits with status 1, having
\* fetched no assignments and built no output.
C11_SkipFailedCourses ==
  /\ [](mpc = "course" => /\ ci <= Asked
                          /\ getUrl = CourseUrl(argCourses[ci]))
  /\ [](mpc \in {"ids", "course"} => Len(courses) < ci)
  /\ [][(mpc = "ids" /\ ci <= Asked) => mpc' = "course"]_vars
  /\ [][(mpc = "course" /\ mpc' = "ids")
          => /\ ci' = ci + 1
             /\ courses' = IF resp.status \in 200..299
                             THEN Append(courses, resp.body.obj)
                             ELSE courses
             /\ resp.status \in 200..299 => resp.body.obj.id = argCourses[ci]]_vars
  /\ [][(mpc = "ids" /\ ci > Asked)
          => mpc' = IF courses = <<>> THEN "exit1" ELSE "assign"]_vars
  /\ [][(mpc = "term" /\ cpc = "returned")
          => mpc' = IF result = <<>> THEN "exit1" ELSE "assign"]_vars
  /\ [](mpc = "exit1" => /\ courses = <<>>
                         /\ abc = NoEntries
                         /\ url.path # "assignments")
  /\ [][mpc = "exit1" => mpc' = "exit1"]_vars

C11_Witness ==
  /\ mpc = "assign"
  /\ argCourses = <<1, 2>>
  /\ Len(courses) = 1
  /\ courses[1].id = 2

\* --------------------------------------------- claims: list_assignments
\* The assignments of s whose published field is absent or not false.
NotHidden(s) == SelectSeq(s, LAMBDA a : a.published = "absent" \/ a.published # "false")

MaxSort == 3
SortPool ==
  { [name |-> "a", due_at |-> TimeDue(5, 0), published |-> "true"],
    [name |-> "b", due_at |-> TimeDue(7, 2), published |-> "true"],
    [name |-> "c", due_at |-> TimeDue(3, 0), published |-> "true"],
    [name |-> "d", due_at |-> TimeDue(2, 0 - 4), published |-> "true"],
    [name |-> "e", due_at |-> NullDue, published |-> "true"],
    [name |-> "f", due_at |-> TextDue, published |-> "true"] }

InitSort ==
  /\ IdleFetch
  /\ observe = FALSE
  /\ IdlePaginate
  /\ IdleCourses
  /\ IdleMain
  /\ fn = "sort_assignments"
  /\ arg \in SeqsUpTo(SortPool, MaxSort)
  /\ ret = <<>>

\* lines 111-115: sort_assignments(arg) returns
Sort ==
  /\ fn = "sort_assignments"
  /\ ret' = SortAssignments(arg)
  /\ fn' = "returned"
  /\ UNCHANGED arg
  /\ UNCHANGED <<fetchVars, pageVars, courseVars, mainVars>>

NextSort ==
  \/ Sort

SpecSort == InitSort /\ [][NextSort]_vars

\* The UTC instant an assignment is due; Undated when it has none.
Undated == 0 - 1
DueInstant(a) == IF a.due_at.kind = "time" THEN a.due_at.t - a.due_at.off ELSE Undated
Dated(a) == DueInstant(a) # Undated
WithInstant(s, t) == SelectSeq(s, LAMBDA a : DueInstant(a) = t)
Count(s, x) == Cardinality({i \in DOMAIN s : s[i] = x})

\* C13: sort_assignments returns a permutation of its input in which the
\* dated assignments come before the undated ones and are in non-decreasing
\* order of UTC instant, and the assignments of one key (one instant, or
\* undated) are in the order they had in the input.
C13_StableSortByDue ==
  fn = "returned"
    => /\ Len(ret) = Len(arg)
       /\ \A x \in SortPool : Count(ret, x) = Count(arg, x)
       /\ \A i, j \in DOMAIN ret :
            i < j => /\ Dated(ret[j]) => Dated(ret[i])
                     /\ Dated(ret[j]) => DueInstant(ret[i]) <= DueInstant(ret[j])
       /\ \A a \in SortPool :
            WithInstant(ret, DueInstant(a)) = WithInstant(arg, DueInstant(a))

C13_Witness ==
  /\ fn = "returned"
  /\ Len(arg) = 3
  /\ arg[1].name = "f"
  /\ arg[2].name = "b"
  /\ arg[3].name = "a"
  /\ ret[1].name = "b"
  /\ ret[2].name = "a"

\* ------------------------------------------------------ clean_course_name
\* A course name is a string of pieces: a word, a blank, a parenthesis that
\* ends in a year, a parenthesis that starts with a season and has no
\* year, and a section suffix.  The empty string stands for no name too.
MaxName == 4
Blank == " "
YearNote == "(Fall 2024)"
SeasonNote == "(fall A)"
SectionSuffix == "-ON1-30797"
NamePieces == {"Math", Blank, YearNote, SeasonNote, SectionSuffix}

\* str.strip() on the right, and on both sides
RECURSIVE RStrip(_)
RStrip(n) ==
  IF n # <<>> /\ n[Len(n)] = Blank THEN RStrip(SubSeq(n, 1, Len(n) - 1)) ELSE n
RECURSIVE LStrip(_)
LStrip(n) == IF n # <<>> /\ n[1] = Blank THEN LStrip(Tail(n)) ELSE n

\* lines 28-29: re.sub(r"\s*\(...\)\s*$", "", n): a name that ends, blanks
\* aside, with a parenthesis of the pattern loses it and the blanks around it
DropTrailing(n, notes) ==
  IF RStrip(n) # <<>> /\ RStrip(n)[Len(RStrip(n))] \in notes
    THEN RStrip(SubSeq(RStrip(n), 1, Len(RStrip(n)) - 1))
    ELSE n

\* line 28: the pattern \([^)]+?\d{4}\); line 29: \((?:Spring|Fall|...)[^)]+\)
YearNotes == {YearNote}
SeasonNotes == {YearNote, SeasonNote}

\* line 30: re.sub(r"-(?:\d{2}|ON\d?)-\d{5,}", "", n): every section suffix goes
DropSuffixes(n) == SelectSeq(n, LAMBDA p : p # SectionSuffix)

\* line 31: re.sub(r"\s{2,}", " ", n)
RECURSIVE Squeeze(_)
Squeeze(n) ==
  IF Len(n) < 2 THEN n
  ELSE IF n[1] = Blank /\ n[2] = Blank THEN Squeeze(Tail(n))
  ELSE <<n[1]>> \o Squeeze(Tail(n))

\* lines 25-32
CleanCourseName(n) ==
  IF n = <<>> THEN <<"Untitled">>
  ELSE LStrip(RStrip(Squeeze(DropSuffixes(
         DropTrailing(DropTrailing(n, YearNotes), SeasonNotes)))))

\* clean_course_name applied to a name and then to its result.
InitClean ==
  /\ IdleFetch
  /\ observe = FALSE
  /\ IdlePaginate
  /\ IdleCourses
  /\ IdleMain
  /\ fn = "clean_course_name"
  /\ arg \in SeqsUpTo(NamePieces, MaxName)
  /\ ret = <<>>

Clean ==
  /\ fn = "clean_course_name"
  /\ ret' = Append(ret, CleanCourseName(IF ret = <<>> THEN arg ELSE ret[Len(ret)]))
  /\ fn' = IF Len(ret) = 1 THEN "returned" ELSE fn
  /\ UNCHANGED arg
  /\ UNCHANGED <<fetchVars, pageVars, courseVars, mainVars>>

NextClean ==
  \/ Clean

SpecClean == InitClean /\ [][NextClean]_vars

\* C14: cleaning a cleaned course name changes nothing.
C14_CleanIdempotent == Len(ret) = 2 => ret[2] = ret[1]

\* ----------------------------------------------------------- build_output
\* The output is modelled line by line (for html part by part): what kind
\* of line it is and the course id, course name, assignment name and due
\* date it prints (0, the empty name, "" and NoDate where it prints none).
MaxRows == 2
NoDate == [dated |-> FALSE, day |-> 0]

\* lines 41-42: format_date_only: the UTC date, or "No due date"
HoursPerDay == 24
FormatDateOnly(t) ==
  IF t = NoInstant THEN NoDate ELSE [dated |-> TRUE, day |-> t \div HoursPerDay]

Line(kind, cid, cname, aname, due) ==
  [kind |-> kind, cid |-> cid, cname |-> cname, aname |-> aname, due |-> due]
Plain(kind) == Line(kind, 0, <<>>, "", NoDate)

\* assignments_by_course.get(cid, [])
Get(d, cid) == IF cid \in DOMAIN d THEN d[cid] ELSE <<>>

\* lines 126, 141, 153, 180: (a.get("name") or "Untitled").strip()
AssignmentName(a) == Strip(IF a.name = "" THEN "Untitled" ELSE a.name)
DueStr(a) == FormatDateOnly(ParseIso8601(a.due_at))

\* lines 124-127, 139-142, 178-181: a line per assignment of the course
Rows(as) == [i \in DOMAIN as |-> Line("row", 0, <<>>, AssignmentName(as[i]), DueStr(as[i]))]

\* lines 151-154: a csv row per assignment, with the course in it
CsvRows(c, as) ==
  [i \in DOMAIN as |->
     Line("row", c.id, CleanCourseName(c.name), AssignmentName(as[i]), DueStr(as[i]))]

\* lines 120-128
RECURSIVE TextCourses(_, _)
TextCourses(cs, d) ==
  IF cs = <<>> THEN <<>>
  ELSE <<Line("course", cs[1].id, CleanCourseName(cs[1].name), "", NoDate)>>
         \o Rows(Get(d, cs[1].id)) \o <<Plain("blank")>> \o TextCourses(Tail(cs), d)
\* lines 118-129
RenderText(cs, d) == <<Plain("title"), Plain("blank")>> \o TextCourses(cs, d)

\* lines 133-143
RECURSIVE MdCourses(_, _)
MdCourses(cs, d) ==
  IF cs = <<>> THEN <<>>
  ELSE <<Line("course", cs[1].id, CleanCourseName(cs[1].name), "", NoDate),
         Plain("columns"), Plain("rule")>>
         \o Rows(Get(d, cs[1].id)) \o <<Plain("blank")>> \o MdCourses(Tail(cs), d)
\* lines 131-144
RenderMd(cs, d) == <<Plain("title"), Plain("blank")>> \o MdCourses(cs, d)

\* lines 148-154
RECURSIVE CsvCourses(_, _)
CsvCourses(cs, d) ==
  IF cs = <<>> THEN <<>>
  ELSE CsvRows(cs[1], Get(d, cs[1].id)) \o CsvCourses(Tail(cs), d)
\* lines 146-155
RenderCsv(cs, d) == <<Plain("columns")>> \o CsvCourses(cs, d)

\* lines 173-182
RECURSIVE HtmlCourses(_, _)
HtmlCourses(cs, d) ==
  IF cs = <<>> THEN <<>>
  ELSE <<Line("course", cs[1].id, CleanCourseName(cs[1].name), "", NoDate),
         Plain("columns")>>
         \o Rows(Get(d, cs[1].id)) \o <<Plain("tableend")>> \o HtmlCourses(Tail(cs), d)
\* lines 157-184
RenderHtml(cs, d) == <<Plain("title")>> \o HtmlCourses(cs, d) \o <<Plain("end")>>

\* lines 186-190
BuildOutput(fmt, cs, d) ==
  IF fmt = "md" THEN RenderMd(cs, d)
  ELSE IF fmt = "html" THEN RenderHtml(cs, d)
  ELSE IF fmt = "csv" THEN RenderCsv(cs, d)
  ELSE RenderText(cs, d)

\* One call of build_output: a format, one or two courses, and a mapping
\* that has an assignment list for some of them.
Formats == {"text", "md", "html", "csv"}
NamedCourses ==
  { [id |-> 1, name |-> <<"Math", Blank, YearNote>>], [id |-> 2, name |-> <<>>] }
CourseLists ==
  {<<c>> : c \in NamedCourses}
    \cup {cs \in {<<c, d>> : c \in NamedCourses, d \in NamedCourses} : cs[1] # cs[2]}
RenderedAssignments ==
  { [name |-> " essay ", due_at |-> TimeDue(29, 0), published |-> "true"],
    [name |-> "", due_at |-> NullDue, published |-> "true"] }
Mappings ==
  UNION {[ids -> SeqsUpTo(RenderedAssignments, MaxRows)] : ids \in SUBSET {1, 2}}

InitRender ==
  /\ IdleFetch
  /\ observe = FALSE
  /\ IdlePaginate
  /\ IdleCourses
  /\ IdleMain
  /\ fn = "build_output"
  /\ arg \in {[fmt |-> f, courses |-> cs, abc |-> d] :
                f \in Formats, cs \in CourseLists, d \in Mappings}
  /\ ret = <<>>

Render ==
  /\ fn = "build_output"
  /\ ret' = BuildOutput(arg.fmt, arg.courses, arg.abc)
  /\ fn' = "returned"
  /\ UNCHANGED arg
  /\ UNCHANGED <<fetchVars, pageVars, courseVars, mainVars>>

NextRender ==
  \/ Render

SpecRender == InitRender /\ [][NextRender]_vars

\* The course ids the output names, in the order of their first lines.
RECURSIVE Uniq(_)
Uniq(s) ==
  IF Len(s) < 2 THEN s
  ELSE IF s[1] = s[2] THEN Uniq(Tail(s)) ELSE <<s[1]>> \o Uniq(Tail(s))
CoursesNamed(out) ==
  Uniq([i \in DOMAIN SelectSeq(out, LAMBDA l : l.cid # 0) |->
          SelectSeq(out, LAMBDA l : l.cid # 0)[i].cid])
RowsOf(out) == Len(SelectSeq(out, LAMBDA l : l.kind = "row"))
RECURSIVE RowsDue(_, _)
RowsDue(cs, d) == IF cs = <<>> THEN 0 ELSE Len(Get(d, cs[1].id)) + RowsDue(Tail(cs), d)

\* C15: in every format the output names the courses in the order given,
\* each of them, also one whose assignment list is empty or missing from
\* the mapping, and it has one row per assignment.
C15_EveryCourseRendered ==
  fn = "returned"
    => /\ CoursesNamed(ret) = [i \in DOMAIN arg.courses |-> arg.courses[i].id]
       /\ RowsOf(ret) = RowsDue(arg.courses, arg.abc)

\* ------------------------------------------------------- claims: requests
Retried(s) == s = TooManyRequests \/ s \in RetryStatuses
NextUrls(link) == {link[i].url : i \in {j \in DOMAIN link : link[j].rel = "next"}}

\* C16: a retry re-sends the URL and the parameters of the first request of
\* the fetch; the first response whose status is not 429, 500, 502, 503 or
\* 504 ends the fetch and is returned with no sleep.  In paginate every
\* request is for the current URL with the current parameters; those are
\* the caller's only until the first page has been received and none from
\* then on, and the URL of a later request is a next URL of the page before.
C16_RequestsRepeatedVerbatim ==
  /\ [][(fpc = "get" /\ fpc' = "get") => (getUrl' = getUrl /\ getParams' = getParams)]_vars
  /\ [](\A i \in DOMAIN log :
          ~Retried(log[i].status)
            => /\ i = Len(log)
               /\ log[i].slept = NoSleep
               /\ fpc = "returned"
               /\ resp.status = log[i].status)
  /\ []((ppc = "wait" /\ fpc = "get") => (getUrl = url /\ getParams = params))
  /\ [][(ppc = "loop" /\ ppc' = "wait") => (getUrl' = url /\ getParams' = params)]_vars
  /\ []((ppc = "wait" /\ getParams # NoParams)
          => /\ getParams = AssignmentParams
             /\ getUrl = ListUrl("assignments", 1, 1)
             /\ served = <<>>
             /\ yielded = <<>>)
  /\ [][params = NoParams => params' = NoParams]_vars
  /\ [][(ppc = "yield" /\ ppc' = "loop")
          => /\ params' = NoParams
             /\ url' \in NextUrls(resp.link) \cup {NoUrl}]_vars

C16_Witness ==
  /\ ppc = "wait"
  /\ fpc = "get"
  /\ attempt > 1
  /\ getUrl.page = 2
  /\ getParams = NoParams

\* ------------------------------------------------- next_link_from_headers
\* One call of next_link_from_headers on its own, or one paginate call.
\* The Link header is absent, or has up to MaxParts segments: with
\* rel="next" or rel="prev", with a <url> or without one.
MaxParts == 3
LinkPool ==
  { LinkPart("next", ListUrl("assignments", 1, 2)),
    LinkPart("next", ListUrl("assignments", 1, 3)),
    LinkPart("next", NoUrl),
    LinkPart("prev", ListUrl("assignments", 1, 1)),
    LinkPart("prev", NoUrl) }
LinkHeaders == {NoHeader} \cup {Header(v) : v \in SeqsUpTo(LinkPool, MaxParts)}

\* line 45: headers.get("Link") or headers.get("link") or ""
LinkVal(h) == IF h.present THEN h.value ELSE <<>>

InitNextLink ==
  /\ IdleFetch
  /\ observe = FALSE
  /\ IdlePaginate
  /\ IdleCourses
  /\ IdleMain
  /\ fn = "next_link_from_headers"
  /\ arg \in LinkHeaders
  /\ ret = NoUrl

NextLink ==
  /\ fn = "next_link_from_headers"
  /\ ret' = NextLinkFromHeaders(LinkVal(arg))
  /\ fn' = "returned"
  /\ UNCHANGED arg
  /\ UNCHANGED <<fetchVars, pageVars, courseVars, mainVars>>

InitLinks == InitNextLink \/ InitPaginate
NextLinks ==
  \/ NextLink
  \/ RateLimited /\ UNCHANGED <<pageVars, upperVars>>
  \/ ServerError /\ UNCHANGED <<pageVars, upperVars>>
  \/ Answered /\ UNCHANGED <<pageVars, upperVars>>
  \/ PaginateExit /\ UNCHANGED upperVars
  \/ PaginateGet /\ UNCHANGED upperVars
  \/ PaginateRaise /\ UNCHANGED upperVars
  \/ PaginateData /\ UNCHANGED upperVars
  \/ PaginateAdvance /\ UNCHANGED upperVars
  \/ Consume /\ UNCHANGED upperVars

SpecLinks == InitLinks /\ [][NextLinks]_vars

\* Segment i of a Link header names the next page.
NamesNext(link, i) == link[i].rel = "next" /\ link[i].url # NoUrl

\* C17: next_link_from_headers returns the <url> of the first segment that
\* has rel="next" and a <url>, passing over a next segment without one, and
\* None when there is no such segment or no header; paginate, having handed
\* over the items of a page without a next URL, ends and requests nothing
\* more.
C17_FirstNextLinkOrNone ==
  /\ [](fn = "returned"
          => IF \E i \in DOMAIN LinkVal(arg) : NamesNext(LinkVal(arg), i)
               THEN \E i \in DOMAIN arg.value :
                      /\ NamesNext(arg.value, i)
                      /\ ret = arg.value[i].url
                      /\ \A j \in 1..(i - 1) : ~NamesNext(arg.value, j)
               ELSE ret = NoUrl)
  /\ [][(ppc = "yield" /\ ppc' = "loop")
          => /\ yielded = served
             /\ (\A i \in DOMAIN resp.link : ~NamesNext(resp.link, i)) => url' = NoUrl]_vars
  /\ [][(ppc = "loop" /\ url = NoUrl)
          => (ppc' = "done" /\ yielded' = yielded /\ fpc' = "idle")]_vars

C17_Witness ==
  /\ fn = "returned"
  /\ arg = Header(<<LinkPart("next", NoUrl),
                    LinkPart("next", ListUrl("assignments", 1, 3)),
                    LinkPart("next", ListUrl("assignments", 1, 2))>>)
  /\ ret = ListUrl("assignments", 1, 3)

\* C18: for every limit from zero on, list_courses_generic returns at most
\* that many courses, every one matching the term substring, in the order
\* the pages gave them.
C18_AtMostMaxCourses ==
  cpc = "return"
    => /\ Len(matches) <= maxCourses
       /\ \A i \in DOMAIN matches : TermMatches(matches[i])
       /\ IsPrefix(matches, Filtered(served))

\* The same for the limits from one on.
C18_AtMostMaxFromOne ==
  (cpc = "return" /\ maxCourses >= 1)
    => /\ Len(matches) <= maxCourses
       /\ \A i \in DOMAIN matches : TermMatches(matches[i])
       /\ IsPrefix(matches, Filtered(served))

\* ------------------------------------------- claims: all or nothing
\* C19: a course's list is never a part of its listing: list_assignments
\* hands over a list only when paginate has ended with every record served
\* taken, and that list is the complete one; when a page request fails,
\* whatever was gathered from the pages before it is dropped and the course
\* gets the empty list; nothing is entered while the listing goes on.
C19_AllOrNothing ==
  /\ [][(mpc = "listing" /\ ppc = "raised" /\ mpc' = "assign")
          => abc'[courses[ci].id] = <<>>]_vars
  /\ [][(mpc = "listing" /\ ppc # "raised" /\ mpc' = "assign")
          => /\ ppc = "done"
             /\ yielded = served
             /\ abc'[courses[ci].id] = CompleteList(served)]_vars
  /\ [][(mpc = "listing" /\ mpc' = "listing") => abc' = abc]_vars

\* The request for the second page has failed with assignments of the first
\* page gathered.
C19_Witness ==
  /\ mpc = "listing"
  /\ ppc = "raised"
  /\ perr.kind = "HTTPError"
  /\ url.page = 2
  /\ CompleteList(items) # <<>>

\* ------------------------------------------------- claims: lazy pagination
\* C20: paginate is lazy and the term search stops pulling it: a request is
\* sent only when every record served so far has been taken; while an
\* endpoint is searched every request goes to that endpoint, which was not
\* searched before, and is sent only while the limit has not been reached;
\* once the search has stopped on the limit nothing is requested until it
\* returns, and the generator is left where it stood, whatever next link
\* the page carries.
C20_LazyAndStopped ==
  /\ [][(fpc # "get" /\ fpc' = "get") => (yielded = served /\ ppc = "loop")]_vars
  /\ [][(ppc = "yield" /\ ppc' = "loop") => idx > Len(PageItems(resp.body))]_vars
  /\ []((fpc = "get" /\ cpc = "loop")
          => /\ getUrl.path = Endpoints[epIdx]
             /\ \A i \in DOMAIN tried : tried[i].path # getUrl.path
             /\ yielded = <<>> \/ ~LimitReached(matches))
  /\ [](fpc = "get" => cpc = "loop")
  /\ [][Stopped => (fpc' = "idle" /\ url' = url /\ served' = served /\ yielded' = yielded)]_vars

\* The search has stopped on the limit in the middle of a page that carries
\* a link to a next page.
C20_Witness ==
  /\ Stopped
  /\ maxCourses >= 1
  /\ idx <= Len(PageItems(resp.body))
  /\ NextLinkFromHeaders(resp.link) # NoUrl
  /\ NextLinkFromHeaders(resp.link) # url

====
